---------------------------- MODULE Spec2Model ----------------------------
(***************************************************************************)
(* Model of the PCA9641 bus master selector driver (i2c-mux-pca9641.c).    *)
(*                                                                         *)
(* Two hosts, each running one instance of the driver, talk to one arbiter *)
(* chip through their own master port.  Every I2C transaction is one       *)
(* atomic step; a host's position inside pca9641_select_chan is pc[h].     *)
(***************************************************************************)
EXTENDS Integers, Sequences, FiniteSets, TLC

VARIABLES
    pc,              \* position of each host's driver
    func,            \* functionality of each host's adapter
    flaky,           \* whether transfers on each host's adapter can fail
    ctl,             \* chip: CONTROL register of each master port
    masks,           \* chip: BUS_CONNECT reads back as 0 while the lock is not granted
    rt,              \* chip: RESERVE_TIME register of each master port
    jiffies,         \* the kernel tick counter (unsigned, wraps)
    timeout,         \* local `timeout` of pca9641_select_chan
    select_timeout,  \* struct pca9641 .select_timeout
    reg,             \* local `reg` of pca9641_arbitrate
    arbRet,          \* value returned by the latest pca9641_arbitrate
    selRet,          \* value returned by the latest pca9641_select_chan
    relRet,          \* value returned by the latest pca9641_release_chan
    entryDelay,      \* .select_timeout as the latest select call found it
    probeLog,        \* what pca9641_probe did, in order
    slept,           \* jiffies when the running delay of the select loop began
    xfer,            \* transactions issued by the latest arbitrate/release call
    polls,           \* arbitrate calls of the latest select call (saturating)
    nWrite,          \* block writes of the latest select call (saturating)
    contended        \* the other host was selecting or holding the bus at some
                     \* time during the latest select call

vars == <<pc, func, flaky, ctl, masks, rt, jiffies, timeout, select_timeout, reg,
          arbRet, selRet, relRet, entryDelay, probeLog, slept, xfer, polls,
          nWrite, contended>>

\* what no step changes: the adapters and the kind of chip
fixed == <<func, flaky, masks>>

---------------------------------------------------------------------------
(* Bounds of the model *)

\* width of the modelled jiffies counter, in bits
JiffiesBits == 3
\* ticks per second of the modelled kernel (scaled down)
HZ == 8
\* ticks one delay of the select loop (the udelay or the msleep, with the
\* time the iteration took) may last at most
MaxSleep == 1
\* the per-call counters saturate here
MaxCount == 3

Host == {1, 2}
Byte == 0 .. 255
JiffiesMod == 2 ^ JiffiesBits

---------------------------------------------------------------------------
(* Register layout *)

PCA9641_CONTR == 1
PCA9641_STATUS == 2
PCA9641_RT == 3
PCA9641_AUTO_INC == 128

BIT(n) == 2 ^ n
PCA9641_CTL_LOCK_REQ == BIT(0)
PCA9641_CTL_LOCK_GRANT == BIT(1)
PCA9641_CTL_BUS_CONNECT == BIT(2)
PCA9641_CTL_IDLE_TIMER_DIS == BIT(5)

RECURSIVE AndBits(_, _, _)
AndBits(x, y, n) ==
    IF n = 0 THEN 0
    ELSE (x % 2) * (y % 2) + 2 * AndBits(x \div 2, y \div 2, n - 1)

\* x & y and x | y on 8-bit values
BitAnd(x, y) == AndBits(x, y, 8)
BitOr(x, y) == x + y - BitAnd(x, y)

CONNECT ==
    BitOr(PCA9641_CTL_LOCK_REQ,
          BitOr(PCA9641_CTL_LOCK_GRANT, PCA9641_CTL_BUS_CONNECT))

\* bug variants: the tests without the mask
connected_nomask(x) == x = CONNECT
requested_nomask(x) == x = PCA9641_CTL_LOCK_REQ

connected(x) == BitAnd(x, CONNECT) = CONNECT
requested(x) == BitAnd(x, CONNECT) = PCA9641_CTL_LOCK_REQ

RESERVE_TIME == 20
ARB_TIMEOUT == HZ \div 4
SELECT_DELAY_SHORT == 0
SELECT_DELAY_LONG == 1000

ETIMEDOUT == 110

\* the value pca9641_arbitrate writes to CONTROL when it requests the bus
RequestBits ==
    BitOr(PCA9641_CTL_LOCK_REQ,
          BitOr(PCA9641_CTL_BUS_CONNECT, PCA9641_CTL_IDLE_TIMER_DIS))

\* the command byte of that block write
RequestCommand == BitOr(PCA9641_CONTR, PCA9641_AUTO_INC)

---------------------------------------------------------------------------
(* Transport: __i2c_smbus_xfer on the parent adapter *)

\* error codes an SMBus transfer can fail with (-EIO, -ENXIO)
TransportErrs == {-5, -6}

\* what a transfer of the given kind can return on adapter of host h
XferOutcomes(h, kind) ==
    IF kind \notin func[h] THEN {-95}
    ELSE IF flaky[h] THEN {0} \cup TransportErrs ELSE {0}

RdXfer(cmd, res) == [op |-> "rd", cmd |-> cmd, v1 |-> 0, v2 |-> 0, res |-> res]
WrXfer(cmd, v, res) == [op |-> "wr", cmd |-> cmd, v1 |-> v, v2 |-> 0, res |-> res]
BlkXfer(cmd, a, b, res) ==
    [op |-> "wrblk", cmd |-> cmd, v1 |-> a, v2 |-> b, res |-> res]

\* bug variant: the transfer's result not looked at
RegReadResult_byte(ret, byte) == byte

\* pca9641_reg_read: `return ret ?: data.byte;`
RegReadResult(ret, byte) == IF ret # 0 THEN ret ELSE byte

---------------------------------------------------------------------------
(* The arbiter chip *)

HasBit(x, b) == BitAnd(x, b) = b
ClearBit(x, b) == x - BitAnd(x, b)

\* The chip grants the lock to at most one requesting master: a master that
\* dropped LOCK_REQ loses the grant, and a free lock goes to a requester.
Resolve(c) ==
    LET c1 == [h \in Host |->
                 IF HasBit(c[h], PCA9641_CTL_LOCK_REQ) THEN c[h]
                 ELSE ClearBit(c[h], PCA9641_CTL_LOCK_GRANT)]
        granted == {h \in Host : HasBit(c1[h], PCA9641_CTL_LOCK_GRANT)}
        asking == {h \in Host : HasBit(c1[h], PCA9641_CTL_LOCK_REQ)}
    IN  IF granted # {} \/ asking = {} THEN c1
        ELSE LET w == CHOOSE h \in asking : \A g \in asking : h <= g
             IN  [c1 EXCEPT ![w] = BitOr(c1[w], PCA9641_CTL_LOCK_GRANT)]

\* one data byte v arriving for register address a of master port h;
\* LOCK_GRANT is owned by the chip, STATUS is read-only
ChipStore(c, r, h, a, v) ==
    IF a = PCA9641_CONTR
    THEN [ctl |-> Resolve([c EXCEPT ![h] =
                     BitOr(ClearBit(v, PCA9641_CTL_LOCK_GRANT),
                           BitAnd(c[h], PCA9641_CTL_LOCK_GRANT))]),
          rt |-> r]
    ELSE IF a = PCA9641_RT
    THEN [ctl |-> c, rt |-> [r EXCEPT ![h] = v]]
    ELSE IF a = PCA9641_STATUS
    THEN [ctl |-> c, rt |-> r]
    ELSE [ctl |-> c, rt |-> r]

\* register address the n-th data byte (n = 0, 1) after command cmd goes to:
\* with the auto-increment flag the 3-bit register number advances per byte
TargetReg(cmd, n) ==
    LET base == cmd % 8
    IN  IF HasBit(cmd, PCA9641_AUTO_INC) THEN (base + n) % 8 ELSE base

\* what a read of CONTROL on master port h returns
ReadBack(c, h) ==
    IF masks /\ ~HasBit(c[h], PCA9641_CTL_LOCK_GRANT)
    THEN ClearBit(c[h], PCA9641_CTL_BUS_CONNECT)
    ELSE c[h]

\* pca9641_reg_write delivered to the chip
ByteWrite(c, r, h, cmd, v) == ChipStore(c, r, h, TargetReg(cmd, 0), v)

\* pca9641_reg_write_multi delivered to the chip
BlockWrite(c, r, h, cmd, a, b) ==
    LET s1 == ChipStore(c, r, h, TargetReg(cmd, 0), a)
    IN  ChipStore(s1.ctl, s1.rt, h, TargetReg(cmd, 1), b)

---------------------------------------------------------------------------
(* Time *)

\* (long)(a - b) for the modelled counter width
SDiff(a, b) ==
    LET d == (a - b + JiffiesMod) % JiffiesMod
    IN  IF d >= JiffiesMod \div 2 THEN d - JiffiesMod ELSE d

\* time_is_after_eq_jiffies(a): a is now or later
time_is_after_eq_jiffies(a) == SDiff(a, jiffies) >= 0

InSelect(h) == pc[h] \in {"poll", "write", "sleep", "check"}

Sat(n) == IF n < MaxCount THEN n + 1 ELSE MaxCount

---------------------------------------------------------------------------
(* Initial state: nothing attached yet, chip in its power-on state *)

FuncSets == {{}, {"BYTE_DATA"}, {"BYTE_DATA", "I2C_BLOCK"}}

InitHost ==
    /\ pc = [h \in Host |-> "unbound"]
    /\ rt = [h \in Host |-> 0]
    /\ jiffies \in 0 .. JiffiesMod - 1
    /\ timeout = [h \in Host |-> 0]
    /\ select_timeout = [h \in Host |-> 0]
    /\ reg = [h \in Host |-> 0]
    /\ arbRet = [h \in Host |-> 0]
    /\ selRet = [h \in Host |-> 0]
    /\ relRet = [h \in Host |-> 0]
    /\ entryDelay = [h \in Host |-> 0]
    /\ probeLog = [h \in Host |-> <<>>]
    /\ slept = [h \in Host |-> 0]
    /\ xfer = [h \in Host |-> <<>>]
    /\ polls = [h \in Host |-> 0]
    /\ nWrite = [h \in Host |-> 0]
    /\ contended = [h \in Host |-> FALSE]

---------------------------------------------------------------------------
(* The driver *)

\* bug variants: every failure reported as a timeout; the value of
\* arbitrate handed through
SelectRet_timeout(ret) == IF ret < 0 THEN -ETIMEDOUT ELSE 0
SelectRet_raw(ret) == ret

\* pca9641_select_chan, after arbitrate returned non-zero:
\* `return ret < 0 ? ret : 0;`
SelectRet(ret) == IF ret < 0 THEN ret ELSE 0

\* bug variant: the busy-wait taken for every delay
DelayPc_spin(st) == "check"

\* pca9641_select_chan, after arbitrate returned 0: udelay() for the short
\* delay (no tick has to pass), msleep() otherwise
DelayPc(st) == IF st = SELECT_DELAY_SHORT THEN "check" ELSE "sleep"

\* bug variant: the check `reg < 0` left out
ArbBranch_noerr(r) ==
    IF r >= 0 /\ connected(r) THEN "acquired"
    ELSE IF r >= 0 /\ requested(r) THEN "wait"
    ELSE "request"

\* pca9641_arbitrate, the branch taken on the value read
ArbBranch(r) ==
    IF r < 0 THEN "error"
    ELSE IF connected(r) THEN "acquired"
    ELSE IF requested(r) THEN "wait"
    ELSE "request"

\* bug variant: the request bit left set
ReleaseValue_req == PCA9641_CTL_LOCK_REQ

\* the value pca9641_release_bus writes to CONTROL
ReleaseValue == 0

\* bug variant: the bus released before the segment is locked
ProbeEvents_unlocked(ok) ==
    <<"release", "lock", "unlock">> \o (IF ok THEN <<"register">> ELSE <<>>)

\* pca9641_probe after its capability check: i2c_lock_bus,
\* pca9641_release_bus, i2c_unlock_bus, then i2c_mux_alloc and
\* i2c_mux_add_adapter, which hand the callbacks to the mux core (ok) or fail
ProbeEvents(ok) ==
    <<"lock", "release", "unlock">> \o (IF ok THEN <<"register">> ELSE <<>>)

\* pca9641_probe: the capability check, the release of the bus, then the
\* registration of the mux adapter (which can fail)
Probe(h) ==
    /\ pc[h] = "unbound"
    /\ IF "BYTE_DATA" \notin func[h]
       THEN /\ pc' = [pc EXCEPT ![h] = "failed"]
            /\ UNCHANGED <<ctl, rt, xfer, probeLog>>
       ELSE \E res \in XferOutcomes(h, "BYTE_DATA"), ok \in BOOLEAN :
              LET s == ByteWrite(ctl, rt, h, PCA9641_CONTR, ReleaseValue)
              IN  /\ xfer' = [xfer EXCEPT ![h] =
                                 <<WrXfer(PCA9641_CONTR, ReleaseValue, res)>>]
                  /\ ctl' = IF res = 0 THEN s.ctl ELSE ctl
                  /\ rt' = IF res = 0 THEN s.rt ELSE rt
                  /\ pc' = [pc EXCEPT ![h] = IF ok THEN "idle" ELSE "failed"]
                  /\ probeLog' = [probeLog EXCEPT ![h] = ProbeEvents(ok)]
    /\ UNCHANGED <<fixed, relRet, entryDelay, jiffies, timeout,
                   select_timeout, reg, arbRet, selRet, slept, polls,
                   nWrite, contended>>

\* pca9641_select_chan: entry, the deadline is computed
SelectEnter(h) ==
    /\ pc[h] \in {"idle", "held"}
    /\ timeout' = [timeout EXCEPT ![h] = (jiffies + ARB_TIMEOUT) % JiffiesMod]
    /\ pc' = [pc EXCEPT ![h] = "poll"]
    /\ polls' = [polls EXCEPT ![h] = 0]
    /\ nWrite' = [nWrite EXCEPT ![h] = 0]
    /\ arbRet' = [arbRet EXCEPT ![h] = 0]
    /\ selRet' = [selRet EXCEPT ![h] = 0]
    /\ xfer' = [xfer EXCEPT ![h] = <<>>]
    /\ entryDelay' = [entryDelay EXCEPT ![h] = select_timeout[h]]
    /\ contended' = [g \in Host |->
          IF g = h THEN \E o \in Host \ {h} : InSelect(o) \/ pc[o] = "held"
          ELSE contended[g] \/ InSelect(g)]
    /\ UNCHANGED <<fixed, relRet, probeLog, ctl, rt, jiffies,
                   select_timeout, reg, slept>>

\* bug variant: the requested branch leaves the field as it found it
WaitDelay_stale(old) == old

\* the delay pca9641_arbitrate's requested branch sets, whatever the field
\* held before
WaitDelay(old) == SELECT_DELAY_LONG

\* pca9641_arbitrate: the read of CONTROL and the branches that issue no
\* write, followed by what pca9641_select_chan does with the result
ArbRead(h) ==
    /\ pc[h] = "poll"
    /\ \E res \in XferOutcomes(h, "BYTE_DATA") :
         LET r == RegReadResult(res, ReadBack(ctl, h))
             b == ArbBranch(r)
             st == IF b = "wait" THEN WaitDelay(select_timeout[h])
                   ELSE select_timeout[h]
         IN  /\ reg' = [reg EXCEPT ![h] = IF b = "request" THEN r ELSE 0]
             /\ xfer' = [xfer EXCEPT ![h] = <<RdXfer(PCA9641_CONTR, res)>>]
             /\ polls' = [polls EXCEPT ![h] = Sat(polls[h])]
             /\ select_timeout' = [select_timeout EXCEPT ![h] = st]
             /\ arbRet' = [arbRet EXCEPT ![h] =
                              IF b = "error" THEN r
                              ELSE IF b = "acquired" THEN 1
                              ELSE IF b = "wait" THEN 0 ELSE arbRet[h]]
             /\ selRet' = [selRet EXCEPT ![h] =
                              IF b = "error" THEN SelectRet(r)
                              ELSE IF b = "acquired" THEN SelectRet(1)
                              ELSE selRet[h]]
             /\ pc' = [pc EXCEPT ![h] =
                          IF b = "error" THEN "idle"
                          ELSE IF b = "acquired" THEN "held"
                          ELSE IF b = "wait" THEN DelayPc(st) ELSE "write"]
             /\ slept' = [slept EXCEPT ![h] = IF b = "wait" THEN jiffies ELSE 0]
             /\ timeout' = [timeout EXCEPT ![h] =
                              IF b \in {"error", "acquired"} THEN 0 ELSE timeout[h]]
    /\ UNCHANGED <<fixed, relRet, entryDelay, probeLog, ctl, rt, jiffies,
                   nWrite, contended>>

\* the result of pca9641_arbitrate's request branch, given the result of
\* its block write: the write's result is dropped
RequestRet(res) == 0

\* bug variant: the long delay after a request
RequestDelay_long == SELECT_DELAY_LONG

\* the delay pca9641_arbitrate's request branch sets
RequestDelay == SELECT_DELAY_SHORT

\* pca9641_arbitrate: the request branch (the block write), followed by
\* what pca9641_select_chan does with the result
ArbWrite(h) ==
    /\ pc[h] = "write"
    /\ \E res \in XferOutcomes(h, "I2C_BLOCK") :
         LET s == BlockWrite(ctl, rt, h, RequestCommand, RequestBits, RESERVE_TIME)
             ret == RequestRet(res)
             st == RequestDelay
         IN  /\ xfer' = [xfer EXCEPT ![h] =
                   Append(xfer[h],
                          BlkXfer(RequestCommand, RequestBits, RESERVE_TIME, res))]
             /\ ctl' = IF res = 0 THEN s.ctl ELSE ctl
             /\ rt' = IF res = 0 THEN s.rt ELSE rt
             /\ nWrite' = [nWrite EXCEPT ![h] = Sat(nWrite[h])]
             /\ select_timeout' = [select_timeout EXCEPT ![h] = st]
             /\ arbRet' = [arbRet EXCEPT ![h] = ret]
             /\ selRet' = [selRet EXCEPT ![h] =
                              IF ret # 0 THEN SelectRet(ret) ELSE selRet[h]]
             /\ pc' = [pc EXCEPT ![h] = IF ret # 0 THEN "idle" ELSE DelayPc(st)]
             /\ slept' = [slept EXCEPT ![h] = IF ret = 0 THEN jiffies ELSE 0]
             /\ timeout' = [timeout EXCEPT ![h] = IF ret # 0 THEN 0 ELSE timeout[h]]
             /\ reg' = [reg EXCEPT ![h] = 0]
    /\ UNCHANGED <<fixed, relRet, entryDelay, probeLog, jiffies, polls,
                   contended>>

\* msleep() returns: at least one tick has passed
Wake(h) ==
    /\ pc[h] = "sleep"
    /\ jiffies # slept[h]
    /\ pc' = [pc EXCEPT ![h] = "check"]
    /\ UNCHANGED <<fixed, relRet, entryDelay, probeLog, ctl, rt, jiffies,
                   timeout, select_timeout, reg, arbRet, selRet, slept,
                   xfer, polls, nWrite, contended>>

\* bug variant: the deadline is never looked at
LoopAgain_forever(h) == TRUE

\* the loop condition of pca9641_select_chan
LoopAgain(h) == time_is_after_eq_jiffies(timeout[h])

\* pca9641_select_chan: `while (time_is_after_eq_jiffies(timeout))`, and
\* `return -ETIMEDOUT` when it fails
Check(h) ==
    /\ pc[h] = "check"
    /\ IF LoopAgain(h)
       THEN /\ pc' = [pc EXCEPT ![h] = "poll"]
            /\ UNCHANGED <<selRet, timeout>>
       ELSE /\ pc' = [pc EXCEPT ![h] = "idle"]
            /\ selRet' = [selRet EXCEPT ![h] = -ETIMEDOUT]
            /\ timeout' = [timeout EXCEPT ![h] = 0]
    /\ slept' = [slept EXCEPT ![h] = 0]
    /\ UNCHANGED <<fixed, relRet, entryDelay, probeLog, ctl, rt, jiffies,
                   select_timeout, reg, arbRet, xfer, polls, nWrite,
                   contended>>

\* the result of pca9641_release_chan, given the result of the write in
\* pca9641_release_bus: the write's result is dropped
ReleaseRet(res) == 0

\* pca9641_release_chan: pca9641_release_bus, then `return 0`
ReleaseChan(h) ==
    /\ pc[h] \in {"idle", "held"}
    /\ \E res \in XferOutcomes(h, "BYTE_DATA") :
         LET s == ByteWrite(ctl, rt, h, PCA9641_CONTR, ReleaseValue)
         IN  /\ xfer' = [xfer EXCEPT ![h] =
                            <<WrXfer(PCA9641_CONTR, ReleaseValue, res)>>]
             /\ ctl' = IF res = 0 THEN s.ctl ELSE ctl
             /\ rt' = IF res = 0 THEN s.rt ELSE rt
             /\ relRet' = [relRet EXCEPT ![h] = ReleaseRet(res)]
    /\ pc' = [pc EXCEPT ![h] = "idle"]
    /\ UNCHANGED <<fixed, entryDelay, probeLog, jiffies, timeout,
                   select_timeout, reg, arbRet, selRet, slept, polls,
                   nWrite, contended>>

---------------------------------------------------------------------------
(* Environment *)

\* A tick of the clock.  The time an iteration of the select loop takes is
\* counted at its delay: no tick passes between the loop condition and the
\* end of pca9641_arbitrate, and at most MaxSleep ticks pass from there to
\* the next evaluation of the loop condition.
Tick ==
    /\ \A h \in Host :
         /\ pc[h] \notin {"poll", "write"}
         /\ pc[h] \in {"sleep", "check"} => SDiff(jiffies, slept[h]) < MaxSleep
    /\ jiffies' = (jiffies + 1) % JiffiesMod
    /\ UNCHANGED <<pc, fixed, relRet, entryDelay, probeLog, ctl, rt,
                   timeout, select_timeout, reg, arbRet, selRet, slept,
                   xfer, polls, nWrite, contended>>

\* values the simulated hardware switches to: every combination of the
\* three arbitration bits, and the request value without and with the grant
CtlSamples ==
    (0 .. CONNECT) \cup {RequestBits, BitOr(RequestBits, PCA9641_CTL_LOCK_GRANT)}

\* Simulated hardware: the CONTROL register of master port 1 changes under
\* the driver (the chip and the other master, seen from host 1)
HwChange ==
    /\ \E v \in CtlSamples :
         /\ v # ctl[1]
         /\ ctl' = [ctl EXCEPT ![1] = v]
    /\ UNCHANGED <<pc, fixed, relRet, entryDelay, probeLog, rt, jiffies,
                   timeout, select_timeout, reg, arbRet, selRet, slept,
                   xfer, polls, nWrite, contended>>

---------------------------------------------------------------------------
(* Host 1 against simulated hardware, the chip starting in its power-on     *)
(* state                                                                   *)

\* host 1 on an adapter with functionality f, host 2 absent
OneHost(f, fl) ==
    /\ func = [h \in Host |-> IF h = 1 THEN f ELSE {}]
    /\ flaky = [h \in Host |-> h = 1 /\ fl]

Init ==
    /\ InitHost
    /\ \E f \in FuncSets : OneHost(f, TRUE)
    /\ ctl = [h \in Host |-> 0]
    /\ masks = FALSE

Driver(h) ==
    \/ Probe(h)
    \/ SelectEnter(h)
    \/ ArbRead(h)
    \/ ArbWrite(h)
    \/ Wake(h)
    \/ Check(h)
    \/ ReleaseChan(h)

Next ==
    \/ Driver(1)
    \/ Tick
    \/ HwChange

Spec == Init /\ [][Next]_vars

---------------------------------------------------------------------------
(* Host 1 against a chip whose CONTROL register starts at any 8-bit value  *)
(* and changes only when the host writes it                                *)

InitRegs ==
    /\ InitHost
    /\ \E f \in FuncSets : OneHost(f, TRUE)
    /\ \E v \in Byte : ctl = [h \in Host |-> IF h = 1 THEN v ELSE 0]
    /\ masks = FALSE

NextRegs ==
    \/ Driver(1)
    \/ Tick

SpecRegs == InitRegs /\ [][NextRegs]_vars

---------------------------------------------------------------------------
(* Host 1 against simulated hardware, with a clock that advances and a     *)
(* driver that keeps running once it is inside a call, on an adapter that  *)
(* supports every kind of transfer the driver issues (transfers can fail)  *)

InitLive ==
    /\ InitHost
    /\ OneHost({"BYTE_DATA", "I2C_BLOCK"}, TRUE)
    /\ ctl = [h \in Host |-> 0]
    /\ masks = FALSE

Run(h) == ArbRead(h) \/ ArbWrite(h) \/ Wake(h) \/ Check(h)

SpecLive == InitLive /\ [][Next]_vars /\ SF_vars(Tick) /\ WF_vars(Run(1))

---------------------------------------------------------------------------
(* Two hosts on reliable adapters against the arbiter chip.  A caller       *)
(* selects, uses the bus if select succeeded, and then releases; a caller  *)
(* whose select failed gives up without a release.                         *)

InitChip ==
    /\ InitHost
    /\ jiffies = 0
    /\ func = [h \in Host |-> {"BYTE_DATA", "I2C_BLOCK"}]
    /\ flaky = [h \in Host |-> FALSE]
    /\ ctl = [h \in Host |-> 0]
    /\ masks \in BOOLEAN

NextChip ==
    \/ \E h \in Host : Probe(h)
    \/ \E h \in Host : pc[h] = "idle" /\ SelectEnter(h)
    \/ \E h \in Host : ArbRead(h)
    \/ \E h \in Host : ArbWrite(h)
    \/ \E h \in Host : Wake(h)
    \/ \E h \in Host : Check(h)
    \/ \E h \in Host : pc[h] = "held" /\ ReleaseChan(h)
    \/ Tick

SpecChip == InitChip /\ [][NextChip]_vars

---------------------------------------------------------------------------
(* Properties *)

\* the three arbitration bits of a register value, spelled out bit by bit
ReqBit(v) == (v % 2) = 1
GrantBit(v) == ((v \div 2) % 2) = 1
ConnBit(v) == ((v \div 4) % 2) = 1

\* this step is host h's read of CONTROL in pca9641_arbitrate
ReadStep(h) == pc[h] = "poll" /\ pc'[h] # "poll"
\* ... and the read succeeded
ReadOk(h) == ReadStep(h) /\ xfer'[h][1].res = 0
\* this step is host h's block write in pca9641_arbitrate
WriteStep(h) == pc[h] = "write" /\ pc'[h] # "write"
\* this step is a call of pca9641_release_chan by host h that changed something
ReleaseStep(h) ==
    /\ pc[h] \in {"idle", "held"}
    /\ pc'[h] = "idle"
    /\ <<pc[h], xfer[h], ctl, rt>> # <<pc'[h], xfer'[h], ctl', rt'>>

ChipUnchanged == ctl' = ctl /\ rt' = rt

\* the value a read of CONTROL by host h returns in this state
Seen(h) == ReadBack(ctl, h)

\* C1: whenever arbitrate reads a CONTROL value with LOCK_REQ, LOCK_GRANT and
\* BUS_CONNECT all set, it returns 1 (acquired) having issued exactly one
\* transaction, the read, and the chip's registers are left as they were.
C1_ConnectedAcquires ==
    [][\A h \in Host :
          (ReadOk(h) /\ ReqBit(Seen(h)) /\ GrantBit(Seen(h)) /\ ConnBit(Seen(h)))
             => /\ arbRet'[h] = 1
                /\ xfer'[h] = <<RdXfer(1, 0)>>
                /\ nWrite'[h] = nWrite[h]
                /\ ChipUnchanged]_vars

\* C1 witness: arbitrate has returned 1 on the value 0xFF after one read
C1_Witness ==
    /\ pc[1] = "held"
    /\ arbRet[1] = 1
    /\ ctl[1] = 255
    /\ xfer[1] = <<RdXfer(1, 0)>>

\* C2: whenever arbitrate reads a CONTROL value with LOCK_REQ set and
\* LOCK_GRANT and BUS_CONNECT clear, it returns 0 (not acquired), leaves
\* select_timeout at 1000 and issues no write.
C2_RequestedWaits ==
    [][\A h \in Host :
          (ReadOk(h) /\ ReqBit(Seen(h)) /\ ~GrantBit(Seen(h)) /\ ~ConnBit(Seen(h)))
             => /\ arbRet'[h] = 0
                /\ select_timeout'[h] = 1000
                /\ xfer'[h] = <<RdXfer(1, 0)>>
                /\ pc'[h] # "write"
                /\ nWrite'[h] = nWrite[h]
                /\ ChipUnchanged]_vars

\* C2 witness: arbitrate has returned 0 with the long delay on the value 0xF9
C2_Witness ==
    /\ pc[1] = "sleep"
    /\ arbRet[1] = 0
    /\ select_timeout[1] = 1000
    /\ ctl[1] = 249
    /\ xfer[1] = <<RdXfer(1, 0)>>

C4_ReadErrorAborts ==
    [][\A h \in Host :
          (ReadStep(h) /\ xfer'[h][1].res < 0)
             => /\ arbRet'[h] = xfer'[h][1].res
                /\ selRet'[h] = xfer'[h][1].res
                /\ pc'[h] = "idle"
                /\ Len(xfer'[h]) = 1
                /\ nWrite'[h] = nWrite[h]
                /\ ChipUnchanged]_vars

\* C4 witness: a select call has ended with -ENXIO on its third poll or later
C4_Witness ==
    /\ pc[1] = "idle"
    /\ selRet[1] = -6
    /\ polls[1] = 3
    /\ xfer[1] = <<RdXfer(1, -6)>>

\* C5: a failed block write makes arbitrate return the transfer's error
\* code, and select returns that code at once.
C5_WriteErrorPropagates ==
    [][\A h \in Host :
          (WriteStep(h) /\ xfer'[h][2].res < 0)
             => /\ arbRet'[h] = xfer'[h][2].res
                /\ selRet'[h] = xfer'[h][2].res
                /\ pc'[h] = "idle"]_vars

\* C9: a poll whose read reports connected ends the select call in that
\* step with success: no write, no further read, no sleep.
C9_ConnectedReturnsAtOnce ==
    [][\A h \in Host :
          (ReadOk(h) /\ ReqBit(Seen(h)) /\ GrantBit(Seen(h)) /\ ConnBit(Seen(h)))
             => /\ selRet'[h] = 0
                /\ pc'[h] = "held"
                /\ Len(xfer'[h]) = 1
                /\ nWrite'[h] = nWrite[h]
                /\ ChipUnchanged]_vars

\* C9 witness: a select call has succeeded on its second poll, after the
\* request written by the first
C9_Witness ==
    /\ pc[1] = "held"
    /\ selRet[1] = 0
    /\ polls[1] = 2
    /\ nWrite[1] = 1
    /\ xfer[1] = <<RdXfer(1, 0)>>

\* C10: every release call issues the byte write of 0x00 to CONTROL,
\* whatever the register held and whether or not the bus was acquired; a
\* delivered write leaves CONTROL at 0 and the rest of the chip alone, and a
\* delivered release that follows a delivered release changes nothing.
C10_ReleaseWritesZero ==
    [][\A h \in Host :
          ReleaseStep(h) =>
             /\ \E res \in {0, -5, -6} : xfer'[h] = <<WrXfer(1, 0, res)>>
             /\ xfer'[h][1].res = 0 => (ctl'[h] = 0 /\ rt' = rt)
             /\ xfer'[h][1].res # 0 => ChipUnchanged
             /\ (xfer[h] = <<WrXfer(1, 0, 0)>> /\ xfer'[h][1].res = 0)
                   => ChipUnchanged]_vars

\* C10 witness: a release has been delivered, and has left CONTROL at 0,
\* after a select call that timed out without acquiring the bus
C10_Witness ==
    /\ pc[1] = "idle"
    /\ selRet[1] = -110
    /\ xfer[1] = <<WrXfer(1, 0, 0)>>
    /\ ctl[1] = 0

\* C6: a host whose latest select call wrote a request, polled again
\* without seeing the grant and returned -ETIMEDOUT, and whose caller has
\* not called release or select since, is never shown by the chip as
\* granted or as connected.
C6_TimeoutHoldsNothing ==
    \A h \in Host :
        (pc[h] = "idle" /\ selRet[h] = -110 /\ nWrite[h] > 0 /\ polls[h] >= 2)
           => /\ ~GrantBit(ctl[h])
              /\ ~(ReqBit(Seen(h)) /\ GrantBit(Seen(h)) /\ ConnBit(Seen(h)))

\* C7: at most one host at a time is between a successful select and its
\* release, and no select call that got to poll again after its request
\* times out when the other host was neither selecting nor holding the bus
\* at any time during the call.
C7_ExclusiveAndNotWedged ==
    /\ ~(pc[1] = "held" /\ pc[2] = "held")
    /\ \A h \in Host :
          (pc[h] = "idle" /\ selRet[h] = -110 /\ polls[h] >= 2) => contended[h]

\* C8: a select call that has been entered ends; its deadline is jiffies +
\* HZ/4 as read at entry and does not change during the call; once the loop
\* condition is evaluated with the clock past the deadline the call returns
\* -ETIMEDOUT without another poll, and it returns -ETIMEDOUT no earlier.
C8_SelectTerminates ==
    /\ \A h \in Host : InSelect(h) ~> ~InSelect(h)
    /\ [][\A h \in Host :
            /\ (~InSelect(h) /\ InSelect(h)')
                  => timeout'[h] = (jiffies + (HZ \div 4)) % JiffiesMod
            /\ (InSelect(h) /\ InSelect(h)') => timeout'[h] = timeout[h]
            /\ (pc[h] = "check" /\ pc'[h] # "check")
                  => IF SDiff(jiffies, timeout[h]) > 0
                     THEN pc'[h] = "idle" /\ selRet'[h] = -110
                     ELSE pc'[h] = "poll"]_vars

\* C8 witness: a select call has returned -ETIMEDOUT after three polls or
\* more, none of which was followed by a sleep
C8_Witness ==
    /\ pc[1] = "idle"
    /\ selRet[1] = -110
    /\ polls[1] = 3
    /\ select_timeout[1] = 0

\* C11: a release call whose write of 0x00 to CONTROL fails returns the
\* transfer's error code, and a release call returns 0 only when the write
\* succeeded.
C11_ReleaseReportsError ==
    [][\A h \in Host :
          ReleaseStep(h) =>
             /\ xfer'[h][1].res < 0 => relRet'[h] = xfer'[h][1].res
             /\ relRet'[h] = 0 => xfer'[h][1].res = 0]_vars

\* C12: every poll of a select call issues exactly one read of CONTROL, and a
\* block write is issued only by the first poll of the call.
C12_WriteOnlyFirstPoll ==
    [][\A h \in Host :
          /\ ReadStep(h) =>
                /\ Len(xfer'[h]) = 1
                /\ xfer'[h][1].op = "rd"
                /\ xfer'[h][1].cmd = 1
          /\ WriteStep(h) =>
                /\ Len(xfer'[h]) = 2
                /\ xfer'[h][1].op = "rd"
                /\ polls[h] = 1]_vars

\* this step is the return of host h's select call with an error
ErrorReturn(h) == InSelect(h) /\ ~InSelect(h)' /\ selRet'[h] < 0

\* C13: a step in which select returns an error (the failed read, or the
\* loop condition that gives -ETIMEDOUT) issues no write and leaves the
\* chip's registers as they were, and a block write is only ever issued
\* right after a read that succeeded.
C13_NoCleanupOnError ==
    [][\A h \in Host :
          /\ ErrorReturn(h) =>
                /\ ChipUnchanged
                /\ nWrite'[h] = nWrite[h]
                /\ \/ xfer'[h] = xfer[h]
                   \/ xfer'[h] = <<RdXfer(1, selRet'[h])>>
          /\ WriteStep(h) => xfer[h] = <<RdXfer(1, 0)>>]_vars

\* C13 witness: a select call has returned -EIO from its second poll, and
\* CONTROL still holds the request written by the first
C13_Witness ==
    /\ pc[1] = "idle"
    /\ selRet[1] = -5
    /\ polls[1] = 2
    /\ nWrite[1] = 1
    /\ xfer[1] = <<RdXfer(1, -5)>>
    /\ ctl[1] = 39

\* C14: when the first poll of a select call reads 0x00 it issues one block
\* write (request bits, reserve time 20) and leaves select_timeout at 0; when
\* the second poll then reads LOCK_REQ|LOCK_GRANT|BUS_CONNECT, select returns
\* 0 after exactly two polls, the second having written nothing.
C14_GrantAtSecondPoll ==
    [][\A h \in Host :
          /\ (WriteStep(h) /\ polls[h] = 1 /\ reg[h] = 0) =>
                /\ \E res \in {0, -5, -6, -95} :
                      xfer'[h] = <<RdXfer(1, 0), BlkXfer(129, 37, 20, res)>>
                /\ select_timeout'[h] = 0
                /\ nWrite'[h] = 1
                /\ pc'[h] = "check"
          /\ (ReadOk(h) /\ polls[h] = 1 /\ nWrite[h] = 1 /\ Seen(h) = 7) =>
                /\ pc'[h] = "held"
                /\ selRet'[h] = 0
                /\ polls'[h] = 2
                /\ nWrite'[h] = 1
                /\ select_timeout'[h] = 0
                /\ xfer'[h] = <<RdXfer(1, 0)>>
                /\ ChipUnchanged]_vars

\* C14 witness: a select call has succeeded at its second poll on the value
\* 0x07, after the one block write of its first poll
C14_Witness ==
    /\ pc[1] = "held"
    /\ selRet[1] = 0
    /\ polls[1] = 2
    /\ nWrite[1] = 1
    /\ select_timeout[1] = 0
    /\ ctl[1] = 7

\* C15: while every read of a select call returns LOCK_REQ only, each poll
\* leaves select_timeout at 1000, writes nothing and is followed by a sleep
\* during which the clock advances, and the call ends, with -ETIMEDOUT,
\* exactly when its loop condition finds the clock past the deadline.
C15_RequestedUntilTimeout ==
    [][\A h \in Host :
          /\ (ReadOk(h) /\ nWrite[h] = 0 /\ Seen(h) = 1) =>
                /\ pc'[h] = "sleep"
                /\ select_timeout'[h] = 1000
                /\ nWrite'[h] = 0
                /\ ChipUnchanged
          /\ (pc[h] = "check" /\ nWrite[h] = 0) =>
                /\ select_timeout[h] = 1000
                /\ jiffies # slept[h]
                /\ pc'[h] # "check" =>
                      IF SDiff(jiffies, timeout[h]) > 0
                      THEN pc'[h] = "idle" /\ selRet'[h] = -110
                      ELSE pc'[h] = "poll"]_vars

\* C15 witness: a select call that read LOCK_REQ only at each of its polls
\* has returned -ETIMEDOUT without a write
C15_Witness ==
    /\ pc[1] = "idle"
    /\ selRet[1] = -110
    /\ nWrite[1] = 0
    /\ polls[1] >= 2
    /\ select_timeout[1] = 1000
    /\ ctl[1] = 1
    /\ xfer[1] = <<RdXfer(1, 0)>>

\* the positions of event e in a probe log
At(log, e) == {i \in 1 .. Len(log) : log[i] = e}

\* C16: a probe that passes its capability check issues exactly one
\* transaction, the write of 0x00 to CONTROL, after taking the segment lock,
\* before dropping it and before the callbacks are registered; a probe that
\* fails the check issues nothing; no later step releases on behalf of the
\* probe again, and a select call runs only after that release.
C16_AttachReleasesOnce ==
    [][\A h \in Host :
          LET log == probeLog'[h] IN
          /\ (pc[h] = "unbound" /\ pc'[h] # "unbound") =>
                IF "BYTE_DATA" \in func[h]
                THEN /\ \E res \in {0, -5, -6} : xfer'[h] = <<WrXfer(1, 0, res)>>
                     /\ Cardinality(At(log, "release")) = 1
                     /\ \E l \in At(log, "lock"), u \in At(log, "unlock") :
                           \A r \in At(log, "release") : l < r /\ r < u
                     /\ \A g \in At(log, "register"), r \in At(log, "release") :
                           r < g
                     /\ pc'[h] = "idle" <=> At(log, "register") # {}
                ELSE /\ xfer'[h] = <<>>
                     /\ log = <<>>
                     /\ ChipUnchanged
                     /\ pc'[h] = "failed"
          /\ pc[h] # "unbound" => probeLog'[h] = probeLog[h]
          /\ InSelect(h)' =>
                At(log, "release") # {} /\ At(log, "register") # {}]_vars

\* C16 witness: the first select call after a successful probe is about to
\* poll for the first time
C16_Witness ==
    /\ pc[1] = "poll"
    /\ polls[1] = 0
    /\ probeLog[1] = <<"lock", "release", "unlock", "register">>
    /\ ctl[1] = 0

\* C17: on a host whose probe succeeded, no transaction of a select or
\* release call is refused by the adapter as unsupported.
C17_NoUnsupportedAfterAttach ==
    \A h \in Host :
        pc[h] \notin {"unbound", "failed"} =>
           \A i \in 1 .. Len(xfer[h]) : xfer[h][i].res # -95

\* C18: the block write is issued only after a read in which LOCK_REQ was
\* clear; a read in which LOCK_REQ is set and LOCK_GRANT is clear is followed
\* by no write and leaves select_timeout at 1000.
C18_NoWriteWhileRequestPending ==
    [][\A h \in Host :
          /\ WriteStep(h) => ~ReqBit(reg[h])
          /\ (ReadOk(h) /\ ReqBit(Seen(h)) /\ ~GrantBit(Seen(h))) =>
                /\ pc'[h] # "write"
                /\ select_timeout'[h] = 1000
                /\ ChipUnchanged]_vars

\* C19: when a select call is entered and has not polled yet,
\* select_timeout holds the reset value 0, whatever earlier calls left.
C19_ResetAtEntry ==
    \A h \in Host :
        (pc[h] = "poll" /\ polls[h] = 0) => select_timeout[h] = 0

\* C19, amended: select_timeout is not reset at entry, but the delay taken
\* after a poll is the one that poll set: the sleep with 1000 after a read
\* of `requested`, the busy-wait with 0 after a request, whatever value the
\* call found in the field.
C19_DelayFromSamePoll ==
    [][\A h \in Host :
          /\ (pc[h] \in {"poll", "write"} /\ pc'[h] \in {"sleep", "check"}) =>
                /\ select_timeout'[h] = IF pc[h] = "poll" THEN 1000 ELSE 0
                /\ pc'[h] = "sleep" <=> select_timeout'[h] = 1000
                /\ pc'[h] = "check" <=> select_timeout'[h] = 0
          /\ (pc[h] \in {"sleep", "check"} /\ InSelect(h)') =>
                select_timeout'[h] = select_timeout[h]
          /\ InSelect(h) => entryDelay'[h] = entryDelay[h]]_vars

\* C19 witness: a select call that found 1000 in select_timeout, left by an
\* earlier call, is in the busy-wait its first poll chose
C19_Witness ==
    /\ pc[1] = "check"
    /\ polls[1] = 1
    /\ nWrite[1] = 1
    /\ entryDelay[1] = 1000
    /\ select_timeout[1] = 0

\* C20: a select call returns 0 only in the step of a successful read that
\* showed LOCK_REQ, LOCK_GRANT and BUS_CONNECT all set; such a read always
\* ends the call with 0, so no call that returns -ETIMEDOUT has read
\* `connected`; and -ETIMEDOUT is returned only from the loop condition,
\* after at least one poll, the latest of which returned 0 from arbitrate.
C20_NoFalseAcquisition ==
    [][\A h \in Host :
          /\ (InSelect(h) /\ ~InSelect(h)' /\ selRet'[h] = 0) =>
                /\ ReadOk(h)
                /\ ReqBit(Seen(h)) /\ GrantBit(Seen(h)) /\ ConnBit(Seen(h))
                /\ pc'[h] = "held"
          /\ (InSelect(h) /\ pc'[h] = "held") => selRet'[h] = 0
          /\ (ReadOk(h) /\ ReqBit(Seen(h)) /\ GrantBit(Seen(h)) /\ ConnBit(Seen(h)))
                => pc'[h] = "held"
          /\ (InSelect(h) /\ ~InSelect(h)' /\ selRet'[h] = -110) =>
                /\ pc[h] = "check"
                /\ polls[h] >= 1
                /\ arbRet[h] = 0
                /\ xfer'[h] = xfer[h]]_vars

\* C20 witness: a select call that waited on `requested` twice has returned
\* 0 at its third poll, on the value 0x07
C20_Witness ==
    /\ pc[1] = "held"
    /\ selRet[1] = 0
    /\ polls[1] = 3
    /\ nWrite[1] = 0
    /\ select_timeout[1] = 1000
    /\ ctl[1] = 7

====
